---------------------------- MODULE Spec2Model ----------------------------
(***************************************************************************)
(* Finite-difference differentiation and gradient descent of              *)
(* src/logic_functions.py: numerical_derivative, gradient_function,       *)
(* gradient_descent and numerical_gradient.                               *)
(*                                                                         *)
(* One behaviour is one call of one of the four routines by a caller.      *)
(* Every evaluation of the objective f is a step of its own, so that the   *)
(* state in which a failure of f reaches the caller is a state of the      *)
(* model.  numpy arrays are objects of a heap (reference -> contents), so  *)
(* that copying and in-place update differ.                                *)
(*                                                                         *)
(* Arithmetic is binary floating point, round to nearest, ties to even,    *)
(* as numpy's float64 computes it; the mantissa has Prec bits instead of   *)
(* 53 and the exponent is unbounded (no overflow, no subnormals).          *)
(***************************************************************************)
EXTENDS Integers, Sequences, FiniteSets, TLC

(***************************************************************************)
(* Bounds of the model.                                                    *)
(***************************************************************************)
Prec == 4          \* mantissa bits of a float
MaxLen == 2        \* longest point vector
MaxIter == 2       \* largest num_iterations
MaxFailAt == 4     \* f may fail on its 1st .. MaxFailAt-th evaluation

(***************************************************************************)
(* Floats: [m, e] is m * 2^e, normalised: m odd, or m = 0 and e = 0.       *)
(***************************************************************************)
RECURSIVE BitLen(_)
BitLen(n) == IF n = 0 THEN 0 ELSE 1 + BitLen(n \div 2)

Abs(n) == IF n < 0 THEN -n ELSE n

Sgn(n) == IF n < 0 THEN -1 ELSE 1

RECURSIVE Norm(_, _)
Norm(m, e) ==
    IF m = 0 THEN [m |-> 0, e |-> 0]
    ELSE IF m % 2 = 0 THEN Norm(m \div 2, e + 1)
    ELSE [m |-> m, e |-> e]

\* m * 2^e rounded to Prec significant bits, ties to even.
RoundF(m, e) ==
    LET a == Abs(m)
        k == BitLen(a) - Prec
    IN  IF k <= 0 THEN Norm(m, e)
        ELSE LET q == a \div (2 ^ k)
                 r == a % (2 ^ k)
                 half == 2 ^ (k - 1)
                 up == r > half \/ (r = half /\ q % 2 = 1)
                 q2 == IF up THEN q + 1 ELSE q
             IN  Norm(Sgn(m) * q2, e + k)

\* Whether the integer m is a float as it stands (rounding changes nothing).
Fits(m) == RoundF(m, 0) = Norm(m, 0)

Zero == [m |-> 0, e |-> 0]

FromInt(n) == RoundF(n, 0)

Neg(a) == [m |-> -a.m, e |-> a.e]

MinE(a, b) == IF a.e < b.e THEN a.e ELSE b.e

\* The exact sum as an integer count of 2^MinE units.
SumM(a, b) == a.m * 2 ^ (a.e - MinE(a, b)) + b.m * 2 ^ (b.e - MinE(a, b))

FAdd(a, b) ==
    IF a.m = 0 THEN b
    ELSE IF b.m = 0 THEN a
    ELSE RoundF(SumM(a, b), MinE(a, b))

FSub(a, b) == FAdd(a, Neg(b))

FMul(a, b) == RoundF(a.m * b.m, a.e + b.e)

\* a / b, b nonzero: 2*Prec+1 quotient bits and a sticky bit, then rounded.
DivShift == 2 * Prec + 1

FDiv(a, b) ==
    LET n == Abs(a.m) * 2 ^ DivShift
        q == n \div Abs(b.m)
        s == IF n % Abs(b.m) = 0 THEN 0 ELSE 1
    IN  RoundF(Sgn(a.m) * Sgn(b.m) * (2 * q + s), a.e - b.e - DivShift - 1)

Two == FromInt(2)

\* n / 2^k, as a float.
Dyadic(n, k) == RoundF(n, -k)

(***************************************************************************)
(* Vectors of floats (the contents of a numpy array).                      *)
(***************************************************************************)
Zeros(n) == [j \in 1..n |-> Zero]

VecAdd(u, v) == [j \in 1..Len(u) |-> FAdd(u[j], v[j])]

VecSub(u, v) == [j \in 1..Len(u) |-> FSub(u[j], v[j])]

VecScale(c, v) == [j \in 1..Len(v) |-> FMul(c, v[j])]

(***************************************************************************)
(* The inputs a caller may pass.                                           *)
(***************************************************************************)
Coord == {FromInt(-1), FromInt(0), FromInt(1), Dyadic(3, 1), FromInt(3)}

Vectors == UNION {[1..n -> Coord] : n \in 0..MaxLen}

\* A point: a 1-d array (nd = 1) or a single real number (nd = 0).
Arrays == {[nd |-> 1, v |-> v] : v \in Vectors}

Scalars == {[nd |-> 0, v |-> <<c>>] : c \in Coord}

\* Nonzero steps, of either sign.  DefaultH stands for the default 1e-5 and
\* NgH for the fixed 1e-4, scaled to the model's mantissa.
DefaultH == Dyadic(1, 2)

NgH == Dyadic(1, 3)

Steps == {DefaultH, Dyadic(1, 1), Neg(DefaultH), Neg(Dyadic(1, 1))}

LearningRates == {Dyadic(1, 2), Dyadic(1, 1)}

\* The objective: sum of squares (the tests' lambda x: x**2), or the sum of
\* (x - 2)^2.  It fails on its failAt-th evaluation (0: never) and, when
\* drift = 1, is impure: the number of the evaluation is added to its value.
Kinds == {"sq", "shift"}

Objectives(drifts) ==
    [kind : Kinds, failAt : 0..MaxFailAt, drift : drifts]

RECURSIVE SumSq(_, _)
SumSq(v, c) ==
    IF v = <<>> THEN Zero
    ELSE FAdd(SumSq(SubSeq(v, 1, Len(v) - 1), c),
              FMul(FSub(v[Len(v)], c), FSub(v[Len(v)], c)))

Base(kind, v) == IF kind = "sq" THEN SumSq(v, Zero) ELSE SumSq(v, Two)

(***************************************************************************)
(* State.                                                                  *)
(***************************************************************************)
VARIABLES
    routine,    \* the routine the caller invoked: "nd", "gf", "gd", "ng"
    obj,        \* the objective f
    h,          \* the step h of numerical_derivative / gradient_function
    learning_rate,         \* learning_rate
    num_iterations,          \* num_iterations
    heap,       \* the arrays: reference -> [nd, v]; heap[1] is the caller's argument
    arg0,       \* the value of the caller's argument when the call began
    pc,         \* where the call is
    caller,     \* who called gradient_function: "top" or "gd"
    x,          \* gradient_descent: the reference of its working point
    x_history,  \* gradient_descent: x_history, a sequence of references
    snap,       \* the value of each history entry when it was appended
    iteration,  \* gradient_descent: iterations completed
    nGrad,      \* gradient_descent: calls of gradient_function begun
    gfX,        \* gradient_function: its float copy of x
    grad,       \* gradient_function / numerical_gradient: grad
    i,          \* the coordinate under test
    fxh1,       \* the value of the first evaluation of the pair (fxh1)
    tmp_val,    \* numerical_gradient: tmp_val
    nEval,      \* evaluations of f begun
    evalLog,    \* every evaluation: its argument, whether it returned, its value
    result,     \* what the call returned
    err         \* what the call raised: "none", "f", "TypeError"

vars == <<routine, obj, h, learning_rate, num_iterations, heap, arg0, pc,
          caller, x, x_history, snap, iteration, nGrad, gfX, grad, i, fxh1,
          tmp_val, nEval, evalLog, result, err>>

params == <<routine, obj, h, learning_rate, num_iterations, arg0>>

NoResult == [tag |-> "none", v |-> <<>>, x |-> 0, hist |-> <<>>]

Start(r, a, o, hh, rate, n, at) ==
    /\ routine = r /\ obj = o /\ h = hh
    /\ learning_rate = rate /\ num_iterations = n
    /\ heap = <<a>> /\ arg0 = a.v /\ pc = at
    /\ caller = "top" /\ x = 0 /\ x_history = <<>> /\ snap = <<>> /\ iteration = 0
    /\ nGrad = 0 /\ gfX = <<>> /\ grad = <<>> /\ i = 1 /\ fxh1 = Zero
    /\ tmp_val = Zero /\ nEval = 0 /\ evalLog = <<>> /\ result = NoResult
    /\ err = "none"

Init ==
    \/ \E a \in Scalars, o \in Objectives({0}), hh \in Steps :
          Start("nd", a, o, hh, Zero, 0, "nd_eval1")
    \/ \E a \in Arrays \cup Scalars, o \in Objectives({0}), hh \in Steps :
          Start("gf", a, o, hh, Zero, 0, "gf_entry")
    \/ \E a \in Arrays \cup Scalars, o \in Objectives({0}),
          rate \in LearningRates, n \in 0..MaxIter :
          Start("gd", a, o, DefaultH, rate, n, "gd_entry")
    \/ \E a \in Arrays \cup Scalars, o \in Objectives({0, 1}) :
          Start("ng", a, o, NgH, Zero, 0, "ng_entry")

(***************************************************************************)
(* One evaluation of f.                                                    *)
(***************************************************************************)
\* Whether the evaluation about to begin returns a value.
Returns == obj.failAt # nEval + 1

\* The value f returns for argument a on its c-th evaluation.
FValue(a, c) == FAdd(Base(obj.kind, a), FromInt(obj.drift * c))

\* Faulty variant: the exception is swallowed and the call goes on.
AfterCallSwallow(ok, next) == next

\* An exception of f is not caught anywhere: it ends the call.
AfterCall(ok, next) == IF ok THEN next ELSE "raised"

Evaluate(a, next) ==
    /\ nEval' = nEval + 1
    /\ evalLog' = Append(evalLog, [arg |-> a, ok |-> Returns,
                                   val |-> IF Returns THEN FValue(a, nEval + 1)
                                           ELSE Zero])
    /\ pc' = AfterCall(Returns, next)
    /\ err' = IF AfterCall(Returns, next) = "raised" THEN "f" ELSE err

\* Faulty variant: the difference divided by h, not 2 * h.
CentralDiffNoTwo(fp, fm, hh) == FDiv(FSub(fp, fm), hh)

\* Faulty variant: the difference divided by 2 * |h|.
CentralDiffAbsStep(fp, fm, hh) ==
    FDiv(FSub(fp, fm), FMul(Two, [m |-> Abs(hh.m), e |-> hh.e]))

\* (f(x + h) - f(x - h)) / (2 * h)
CentralDiff(fp, fm, hh) == FDiv(FSub(fp, fm), FMul(Two, hh))

(***************************************************************************)
(* numerical_derivative(f, x, h)                                           *)
(***************************************************************************)
ND_Eval1 ==
    /\ pc = "nd_eval1"
    /\ Evaluate(<<FAdd(heap[1].v[1], h)>>, "nd_eval2")
    /\ fxh1' = IF Returns THEN FValue(<<FAdd(heap[1].v[1], h)>>, nEval + 1) ELSE fxh1
    /\ UNCHANGED <<params, heap, caller, x, x_history, snap, iteration, nGrad, gfX, grad,
                   i, tmp_val, result>>

ND_Eval2 ==
    /\ pc = "nd_eval2"
    /\ Evaluate(<<FSub(heap[1].v[1], h)>>, "returned")
    /\ result' = IF AfterCall(Returns, "returned") = "returned"
                 THEN [NoResult EXCEPT !.tag = "deriv",
                          !.v = <<CentralDiff(fxh1,
                                     FValue(<<FSub(heap[1].v[1], h)>>, nEval + 1), h)>>]
                 ELSE result
    /\ UNCHANGED <<params, heap, caller, x, x_history, snap, iteration, nGrad, gfX, grad,
                   i, fxh1, tmp_val>>

(***************************************************************************)
(* gradient_function(f, x, h)                                              *)
(***************************************************************************)
\* Faulty variant: np.ones in place of np.eye, every coordinate perturbed.
PerturbAll(n, k, hh) == [j \in 1..n |-> hh]

\* Row i of np.eye(n) * h.
PerturbRow(n, k, hh) == [j \in 1..n |-> IF j = k THEN hh ELSE Zero]

\* The array gradient_function was called with.
GfArg == IF caller = "gd" THEN heap[x] ELSE heap[1]

\* x = np.array(x, dtype=float); grad = np.zeros_like(x); np.eye(len(x)):
\* len() of a 0-d array raises TypeError.
GF_Entry ==
    /\ pc = "gf_entry"
    /\ IF GfArg.nd = 0
       THEN /\ pc' = "raised" /\ err' = "TypeError"
            /\ UNCHANGED <<gfX, grad, i>>
       ELSE /\ gfX' = GfArg.v /\ grad' = Zeros(Len(GfArg.v)) /\ i' = 1
            /\ pc' = "gf_loop" /\ err' = err
    /\ UNCHANGED <<params, heap, caller, x, x_history, snap, iteration, nGrad, fxh1, tmp_val,
                   nEval, evalLog, result>>

GF_Eval1 ==
    /\ pc = "gf_loop" /\ i <= Len(gfX)
    /\ LET a == VecAdd(gfX, PerturbRow(Len(gfX), i, h))
       IN  /\ Evaluate(a, "gf_eval2")
           /\ fxh1' = IF Returns THEN FValue(a, nEval + 1) ELSE fxh1
    /\ UNCHANGED <<params, heap, caller, x, x_history, snap, iteration, nGrad, gfX, grad,
                   i, tmp_val, result>>

GF_Eval2 ==
    /\ pc = "gf_eval2"
    /\ LET a == VecSub(gfX, PerturbRow(Len(gfX), i, h))
       IN  /\ Evaluate(a, "gf_loop")
           /\ IF AfterCall(Returns, "gf_loop") = "gf_loop"
              THEN /\ grad' = [grad EXCEPT ![i] =
                                  CentralDiff(fxh1, FValue(a, nEval + 1), h)]
                   /\ i' = i + 1
              ELSE UNCHANGED <<grad, i>>
    /\ UNCHANGED <<params, heap, caller, x, x_history, snap, iteration, nGrad, gfX, fxh1,
                   tmp_val, result>>

GF_Return ==
    /\ pc = "gf_loop" /\ i > Len(gfX)
    /\ IF caller = "gd"
       THEN pc' = "gd_update" /\ result' = result
       ELSE pc' = "returned" /\ result' = [NoResult EXCEPT !.tag = "grad", !.v = grad]
    /\ UNCHANGED <<params, heap, caller, x, x_history, snap, iteration, nGrad, gfX, grad,
                   i, fxh1, tmp_val, nEval, evalLog, err>>

(***************************************************************************)
(* gradient_descent(f, init_x, learning_rate, num_iterations)              *)
(***************************************************************************)
\* Faulty variant: no copy is made, the same array is referred to.
CopyRefAlias(hp, r) == r

\* np.array(a, dtype=float) and a.copy() make a new array: its reference,
\* and the heap holding it.
CopyRef(hp, r) == Len(hp) + 1

CopyHeap(hp, r) == Append(hp, hp[r])

\* Faulty variant: x += learning_rate * grad.
UpdateAscent(v, rate, g) == VecAdd(v, VecScale(rate, g))

\* x -= learning_rate * grad
Update(v, rate, g) == VecSub(v, VecScale(rate, g))

\* x = np.array(init_x, dtype=float); x_history = [x.copy()]
GD_Entry ==
    /\ pc = "gd_entry"
    /\ LET h1 == CopyHeap(heap, 1)
           r1 == CopyRef(heap, 1)
       IN  /\ x' = r1
           /\ x_history' = <<CopyRef(h1, r1)>>
           /\ heap' = CopyHeap(h1, r1)
           /\ snap' = <<h1[r1].v>>
    /\ pc' = "gd_loop"
    /\ UNCHANGED <<params, caller, iteration, nGrad, gfX, grad, i, fxh1, tmp_val, nEval,
                   evalLog, result, err>>

\* for _ in range(num_iterations): grad = gradient_function(f, x)
GD_Iterate ==
    /\ pc = "gd_loop" /\ iteration < num_iterations
    /\ caller' = "gd" /\ nGrad' = nGrad + 1 /\ pc' = "gf_entry"
    /\ UNCHANGED <<params, heap, x, x_history, snap, iteration, gfX, grad, i, fxh1, tmp_val,
                   nEval, evalLog, result, err>>

\* x -= learning_rate * grad; x_history.append(x.copy())
GD_Update ==
    /\ pc = "gd_update"
    /\ LET h1 == [heap EXCEPT ![x].v = Update(@, learning_rate, grad)]
       IN  /\ heap' = CopyHeap(h1, x)
           /\ x_history' = Append(x_history, CopyRef(h1, x))
           /\ snap' = Append(snap, h1[x].v)
    /\ iteration' = iteration + 1 /\ pc' = "gd_loop"
    /\ UNCHANGED <<params, caller, x, nGrad, gfX, grad, i, fxh1, tmp_val, nEval,
                   evalLog, result, err>>

\* return x, x_history
GD_Return ==
    /\ pc = "gd_loop" /\ iteration >= num_iterations
    /\ result' = [NoResult EXCEPT !.tag = "gd", !.x = x, !.hist = x_history]
    /\ pc' = "returned"
    /\ UNCHANGED <<params, heap, caller, x, x_history, snap, iteration, nGrad, gfX, grad,
                   i, fxh1, tmp_val, nEval, evalLog, err>>

(***************************************************************************)
(* numerical_gradient(f, x): x is perturbed in place.                      *)
(***************************************************************************)
\* Faulty variant: the position is left as perturbed.
RestoreNot(v, k, t) == v

\* x[idx] = tmp_val
Restore(v, k, t) == [v EXCEPT ![k] = t]

\* h = 1e-4; grad = np.zeros_like(x); it = np.nditer(x, ...)
NG_Entry ==
    /\ pc = "ng_entry"
    /\ grad' = Zeros(Len(heap[1].v)) /\ i' = 1 /\ pc' = "ng_loop"
    /\ UNCHANGED <<params, heap, caller, x, x_history, snap, iteration, nGrad, gfX, fxh1,
                   tmp_val, nEval, evalLog, result, err>>

\* tmp_val = x[idx]; x[idx] = float(tmp_val) + h
NG_Perturb ==
    /\ pc = "ng_loop" /\ i <= Len(heap[1].v)
    /\ tmp_val' = heap[1].v[i]
    /\ heap' = [heap EXCEPT ![1].v[i] = FAdd(heap[1].v[i], h)]
    /\ pc' = "ng_eval1"
    /\ UNCHANGED <<params, caller, x, x_history, snap, iteration, nGrad, gfX, grad, i,
                   fxh1, nEval, evalLog, result, err>>

\* fxh1 = f(x); x[idx] = tmp_val - h
NG_Eval1 ==
    /\ pc = "ng_eval1"
    /\ Evaluate(heap[1].v, "ng_eval2")
    /\ IF AfterCall(Returns, "ng_eval2") = "ng_eval2"
       THEN /\ fxh1' = FValue(heap[1].v, nEval + 1)
            /\ heap' = [heap EXCEPT ![1].v[i] = FSub(tmp_val, h)]
       ELSE UNCHANGED <<fxh1, heap>>
    /\ UNCHANGED <<params, caller, x, x_history, snap, iteration, nGrad, gfX, grad, i,
                   tmp_val, result>>

\* fxh2 = f(x); grad[idx] = (fxh1 - fxh2) / (2 * h); x[idx] = tmp_val; it.iternext()
NG_Eval2 ==
    /\ pc = "ng_eval2"
    /\ Evaluate(heap[1].v, "ng_loop")
    /\ IF AfterCall(Returns, "ng_loop") = "ng_loop"
       THEN /\ grad' = [grad EXCEPT ![i] =
                           CentralDiff(fxh1, FValue(heap[1].v, nEval + 1), h)]
            /\ heap' = [heap EXCEPT ![1].v = Restore(@, i, tmp_val)]
            /\ i' = i + 1
       ELSE UNCHANGED <<grad, heap, i>>
    /\ UNCHANGED <<params, caller, x, x_history, snap, iteration, nGrad, gfX, fxh1, tmp_val,
                   result>>

\* return grad
NG_Return ==
    /\ pc = "ng_loop" /\ i > Len(heap[1].v)
    /\ result' = [NoResult EXCEPT !.tag = "grad", !.v = grad]
    /\ pc' = "returned"
    /\ UNCHANGED <<params, heap, caller, x, x_history, snap, iteration, nGrad, gfX, grad,
                   i, fxh1, tmp_val, nEval, evalLog, err>>

Next ==
    \/ ND_Eval1 \/ ND_Eval2
    \/ GF_Entry \/ GF_Eval1 \/ GF_Eval2 \/ GF_Return
    \/ GD_Entry \/ GD_Iterate \/ GD_Update \/ GD_Return
    \/ NG_Entry \/ NG_Perturb \/ NG_Eval1 \/ NG_Eval2 \/ NG_Return

Spec == Init /\ [][Next]_vars

Done == pc \in {"returned", "raised"}

(***************************************************************************)
(* The claims.                                                             *)
(***************************************************************************)
\* v with d added to coordinate k.
Bump(v, k, d) == [v EXCEPT ![k] = FAdd(@, d)]

\* The central-difference partial derivatives of a pure objective at v.
GradClosed(kind, v, hh) ==
    [k \in 1..Len(v) |->
        FDiv(FSub(Base(kind, Bump(v, k, hh)), Base(kind, Bump(v, k, Neg(hh)))),
             FMul(Two, hh))]

Refs(seq) == {seq[k] : k \in 1..Len(seq)}

\* C1: for every N >= 0 and every f that returns a value, gradient_descent
\* ends by returning, after exactly N gradient computations and N updates,
\* a history of N + 1 entries whose first equals init_x; with N = 0 it
\* returns init_x's value and never evaluates f.
C1_ExactlyNIterations ==
    (routine = "gd" /\ obj.failAt = 0 /\ Done) =>
        /\ pc = "returned"
        /\ nGrad = num_iterations /\ iteration = num_iterations
        /\ Len(result.hist) = num_iterations + 1
        /\ heap[result.hist[1]].v = arg0
        /\ (num_iterations = 0 => nEval = 0 /\ heap[result.x].v = arg0)

\* C1 for a 1-d array init_x only (the case the code handles).
C1_ArrayCase == heap[1].nd = 1 => C1_ExactlyNIterations

\* C2: whenever numerical_gradient moves to the next position, and when it
\* returns, every element of x has the value it had before the call,
\* whatever values f returned.
C2_InputRestored ==
    (routine = "ng" /\ pc \in {"ng_loop", "returned"}) =>
        heap[1] = [nd |-> heap[1].nd, v |-> arg0]

C2_Witness ==
    /\ routine = "ng" /\ pc = "returned" /\ obj.drift = 1
    /\ Len(arg0) = 2 /\ nEval = 4 /\ result.v[1] # result.v[2]

\* C3: every history entry keeps the value it had when appended, the
\* returned x is none of the history's objects, the entries are distinct
\* objects, and the caller's init_x keeps its values.
C3_IndependentSnapshots ==
    routine = "gd" =>
        /\ \A k \in 1..Len(x_history) : heap[x_history[k]].v = snap[k]
        /\ Len(snap) = Len(x_history)
        /\ Cardinality(Refs(x_history)) = Len(x_history)
        /\ 1 \notin Refs(x_history) /\ x \notin Refs(x_history)
        /\ heap[1].v = arg0
        /\ (pc = "returned" => result.x \notin Refs(result.hist) /\ result.x # 1)

C3_Witness ==
    /\ routine = "gd" /\ pc = "returned" /\ num_iterations = 2 /\ Len(arg0) = 2
    /\ snap[1] # snap[2] /\ snap[2] # snap[3] /\ heap[result.x].v # arg0

\* C4: gradient_function returns after exactly 2n evaluations of f, the
\* (2i-1)-th at x + h*e_i and the 2i-th at x - h*e_i, with
\* grad[i] = (f(x + h*e_i) - f(x - h*e_i)) / (2h), and a result of length n.
C4_TwoEvaluationsPerCoordinate ==
    (routine = "gf" /\ pc = "returned") =>
        /\ nEval = 2 * Len(arg0) /\ Len(evalLog) = 2 * Len(arg0)
        /\ result.tag = "grad" /\ Len(result.v) = Len(arg0)
        /\ \A k \in 1..Len(arg0) :
              /\ evalLog[2 * k - 1].arg = Bump(arg0, k, h)
              /\ evalLog[2 * k].arg = Bump(arg0, k, Neg(h))
              /\ evalLog[2 * k - 1].val = Base(obj.kind, Bump(arg0, k, h))
              /\ evalLog[2 * k].val = Base(obj.kind, Bump(arg0, k, Neg(h)))
              /\ result.v[k] = FDiv(FSub(evalLog[2 * k - 1].val, evalLog[2 * k].val),
                                    FMul(Two, h))

C4_Witness ==
    /\ routine = "gf" /\ pc = "returned" /\ Len(arg0) = 2 /\ nEval = 4
    /\ arg0[1] # arg0[2] /\ result.v[1].m # 0 /\ result.v[2].m # 0

\* C4, the empty point: an empty gradient and no evaluation.
C4_WitnessEmpty ==
    routine = "gf" /\ pc = "returned" /\ arg0 = <<>> /\ nEval = 0 /\ result.v = <<>>

\* Some evaluation of f has failed.
AnyFailed == \E k \in 1..Len(evalLog) : ~evalLog[k].ok

\* C5: once an evaluation of f has failed, the call has ended with f's
\* failure: that evaluation is the last, nothing is returned (no partial
\* gradient), and gradient_descent has made no update or append after its
\* last complete iteration.
C5_FailureAborts ==
    AnyFailed =>
        /\ pc = "raised" /\ err = "f"
        /\ ~evalLog[Len(evalLog)].ok
        /\ \A k \in 1..(Len(evalLog) - 1) : evalLog[k].ok
        /\ nEval = obj.failAt
        /\ result = NoResult
        /\ (routine = "gd" =>
              /\ Len(x_history) = iteration + 1
              /\ heap[x].v = snap[Len(snap)]
              /\ heap[x_history[Len(x_history)]].v = snap[Len(snap)])
        /\ (routine \in {"gf", "gd"} => grad[i] = Zero)

C5_Witness ==
    /\ routine = "gd" /\ pc = "raised" /\ err = "f" /\ iteration = 1 /\ nEval = 3
    /\ snap[1] # snap[2]

\* C6: gradient_descent called with a single real number, init_x = 0.0,
\* and f(x) = (x - 2)^2 completes all N iterations and returns N + 1
\* history entries, the first equal to 0.0.
C6_ScalarStartCompletes ==
    (routine = "gd" /\ heap[1].nd = 0 /\ arg0 = <<Zero>> /\ obj.kind = "shift"
        /\ obj.failAt = 0 /\ Done) =>
        /\ pc = "returned" /\ iteration = num_iterations
        /\ Len(result.hist) = num_iterations + 1
        /\ heap[result.hist[1]].v = <<Zero>>

\* One step of descent from v, in closed form.
StepFrom(v) ==
    [j \in 1..Len(v) |->
        FSub(v[j], FMul(learning_rate, GradClosed(obj.kind, v, DefaultH)[j]))]

\* C7: each history entry after the first is the entry before it minus
\* learning_rate times the central-difference gradient at that entry, and
\* the returned point equals the last of the N + 1 history entries.
C7_DescentStep ==
    routine = "gd" =>
        /\ \A k \in 2..Len(x_history) :
              heap[x_history[k]].v = StepFrom(heap[x_history[k - 1]].v)
        /\ (pc = "returned" =>
              /\ Len(result.hist) = num_iterations + 1
              /\ heap[result.x].v = heap[result.hist[num_iterations + 1]].v)

C7_Witness ==
    /\ routine = "gd" /\ pc = "returned" /\ num_iterations = 2 /\ Len(arg0) = 2
    /\ heap[result.hist[3]].v # heap[result.hist[2]].v
    /\ heap[result.hist[2]].v # heap[result.hist[1]].v

\* Whether the floating-point operation is exact.
ExactAdd(a, b) == a.m = 0 \/ b.m = 0 \/ Fits(SumM(a, b))

ExactMul(a, b) == Fits(a.m * b.m)

ExactDiv(a, b) ==
    /\ (Abs(a.m) * 2 ^ DivShift) % Abs(b.m) = 0
    /\ Fits((Abs(a.m) * 2 ^ DivShift) \div Abs(b.m))

\* No operation of the central difference of x^2 at xv with step hh rounds.
NdExact(xv, hh) ==
    LET p == FAdd(xv, hh)
        q == FSub(xv, hh)
    IN  /\ ExactAdd(xv, hh) /\ ExactAdd(xv, Neg(hh))
        /\ ExactMul(p, p) /\ ExactMul(q, q)
        /\ ExactAdd(FMul(p, p), Neg(FMul(q, q)))
        /\ ExactMul(Two, hh)
        /\ ExactDiv(FSub(FMul(p, p), FMul(q, q)), FMul(Two, hh))

\* C8 as stated: for f(x) = x^2 the result equals 2x for every x and every
\* nonzero h.
C8_SquareDerivativeIsTwoX ==
    (routine = "nd" /\ pc = "returned" /\ obj.kind = "sq") =>
        result.v = <<FMul(Two, arg0[1])>>

\* C8, amended: numerical_derivative returns (f(x+h) - f(x-h)) / (2h) from
\* exactly two evaluations, at x+h and then at x-h, leaving x as it was;
\* for f(x) = x^2 the result equals 2x whenever no floating-point operation
\* of the computation rounds.
C8_CentralDifference ==
    (routine = "nd" /\ pc = "returned") =>
        /\ nEval = 2 /\ Len(evalLog) = 2
        /\ evalLog[1].arg = <<FAdd(arg0[1], h)>>
        /\ evalLog[2].arg = <<FSub(arg0[1], h)>>
        /\ evalLog[1].val = Base(obj.kind, evalLog[1].arg)
        /\ evalLog[2].val = Base(obj.kind, evalLog[2].arg)
        /\ result.tag = "deriv"
        /\ result.v = <<FDiv(FSub(evalLog[1].val, evalLog[2].val), FMul(Two, h))>>
        /\ heap[1].v = arg0
        /\ (obj.kind = "sq" /\ NdExact(arg0[1], h) =>
               result.v = <<FMul(Two, arg0[1])>>)

C8_Witness ==
    /\ routine = "nd" /\ pc = "returned" /\ obj.kind = "sq"
    /\ NdExact(arg0[1], h) /\ arg0[1] = FromInt(1)
    /\ result.v = <<FromInt(2)>>

\* The value a call with a negative step is compared with: the central
\* difference with the step negated (positive).
NdClosed(kind, xv, hh) ==
    FDiv(FSub(Base(kind, <<FAdd(xv, hh)>>), Base(kind, <<FSub(xv, hh)>>)),
         FMul(Two, hh))

NegativeStepCall(r) ==
    routine = r /\ h.m < 0 /\ obj.failAt = 0 /\ Done /\ (r = "gf" => heap[1].nd = 1)

\* C9 as stated: with a negative step the call raises nothing and returns
\* the negation of the value obtained with the positive step.
C9_NegativeStepNegates ==
    /\ NegativeStepCall("nd") =>
          pc = "returned" /\ result.v = <<Neg(NdClosed(obj.kind, arg0[1], Neg(h)))>>
    /\ NegativeStepCall("gf") =>
          /\ pc = "returned"
          /\ \A k \in 1..Len(arg0) :
                result.v[k] = Neg(GradClosed(obj.kind, arg0, Neg(h))[k])

\* C9, amended: with a negative step the call raises nothing and returns
\* the same value as with the positive step (f pure).
C9_NegativeStepSameValue ==
    /\ NegativeStepCall("nd") =>
          pc = "returned" /\ result.v = <<NdClosed(obj.kind, arg0[1], Neg(h))>>
    /\ NegativeStepCall("gf") =>
          /\ pc = "returned"
          /\ Len(result.v) = Len(arg0)
          /\ \A k \in 1..Len(arg0) :
                result.v[k] = GradClosed(obj.kind, arg0, Neg(h))[k]

C9_Witness ==
    /\ NegativeStepCall("gf") /\ pc = "returned" /\ Len(arg0) = 2
    /\ result.v[1].m > 0 /\ result.v[2].m < 0

\* C10: when a failure of f reaches the caller of numerical_gradient, every
\* element of x holds its original value.
C10_RestoredOnFailure ==
    (routine = "ng" /\ pc = "raised") => heap[1].v = arg0

=============================================================================
